---- MODULE Spec2Model ----
(***************************************************************************)
(* sailstats-logger: Yacht Devices raw line parser (yd.rs), NMEA2000       *)
(* fast-packet reassembly (yd.rs Raw::write, nmea2000/mod.rs Parser) and   *)
(* the merge of decoded messages into the navigation State (state.rs),     *)
(* driven by the ingestion loops of main.rs.                               *)
(*                                                                         *)
(* Text is modelled as text: a line is the sequence of its whitespace      *)
(* separated fields and a field is a sequence of one-character strings.    *)
(* Indices of byte arrays are 0-based as in the source (functions on 0..7);*)
(* Vec<u8> values are TLA+ sequences.  Floating point values are kept as   *)
(* fixed-point integers (the unit is stated where the value is produced);  *)
(* f32 rounding is not modelled.                                           *)
(***************************************************************************)
EXTENDS Integers, Sequences, FiniteSets, TLC

(***************************************************************************)
(* Integer helpers for the bit operations of the source.                   *)
(***************************************************************************)
Min(a, b) == IF a < b THEN a ELSE b

RECURSIVE BitAnd(_, _)
BitAnd(a, b) ==
    IF a = 0 \/ b = 0 THEN 0
    ELSE (a % 2) * (b % 2) + 2 * BitAnd(a \div 2, b \div 2)

RECURSIVE BitOr(_, _)
BitOr(a, b) ==
    IF a = 0 THEN b
    ELSE IF b = 0 THEN a
    ELSE (IF (a % 2) + (b % 2) > 0 THEN 1 ELSE 0) + 2 * BitOr(a \div 2, b \div 2)

RECURSIVE BitXor(_, _)
BitXor(a, b) ==
    IF a = 0 THEN b
    ELSE IF b = 0 THEN a
    ELSE ((a + b) % 2) + 2 * BitXor(a \div 2, b \div 2)

Shr(a, n) == a \div (2 ^ n)
Shl(a, n) == a * (2 ^ n)
AsU8(a) == a % 256

U8Max == 255

\* A u32 is kept as its two 16-bit halves [hi, lo], value hi * 2^16 + lo
U32(hi, lo) == [hi |-> hi, lo |-> lo]

\* (x >> n) for a u32 x and 8 <= n <= 31
Shr32(x, n) ==
    IF n >= 16 THEN Shr(x.hi, n - 16)
    ELSE Shl(x.hi, 16 - n) + Shr(x.lo, n)

\* x as u8 for a u32 x
U32AsU8(x) == x.lo % 256

(***************************************************************************)
(* Number parsing (core::num from_str_radix / from_str as used by yd.rs).  *)
(* A result of -1 stands for Err(ParseIntError) / Err(ParseFloatError).    *)
(***************************************************************************)
HexUpper == <<"0", "1", "2", "3", "4", "5", "6", "7", "8", "9", "A", "B", "C", "D", "E", "F">>
HexLower == <<"0", "1", "2", "3", "4", "5", "6", "7", "8", "9", "a", "b", "c", "d", "e", "f">>

\* char::to_digit(16): value of a digit character, -1 when it is no digit
CharVal(c) ==
    IF \E i \in 1..16 : HexUpper[i] = c THEN (CHOOSE i \in 1..16 : HexUpper[i] = c) - 1
    ELSE IF \E i \in 1..16 : HexLower[i] = c THEN (CHOOSE i \in 1..16 : HexLower[i] = c) - 1
    ELSE -1

RECURSIVE DigitsToInt(_, _, _, _)
DigitsToInt(s, radix, max, acc) ==
    IF s = <<>> THEN acc
    ELSE LET d == CharVal(Head(s)) IN
         IF d < 0 \/ d >= radix THEN -1
         ELSE IF acc * radix + d > max THEN -1
         ELSE DigitsToInt(Tail(s), radix, max, acc * radix + d)

\* uN::from_str_radix(s, radix): empty input, a lone sign, a non-digit and
\* overflow are errors; one leading "+" is accepted
from_str_radix(s, radix, max) ==
    IF s = <<>> THEN -1
    ELSE IF Head(s) = "+" THEN (IF Len(s) = 1 THEN -1 ELSE DigitsToInt(Tail(s), radix, max, 0))
    ELSE DigitsToInt(s, radix, max, 0)

RECURSIVE HexToU32(_, _)
HexToU32(s, acc) ==
    IF s = <<>> \/ ~acc.ok THEN acc
    ELSE LET d  == CharVal(Head(s))
             lo == acc.lo * 16 + d
             hi == acc.hi * 16 + lo \div 65536
         IN  IF d < 0 \/ hi > 65535 THEN [ok |-> FALSE, hi |-> 0, lo |-> 0]
             ELSE HexToU32(Tail(s), [ok |-> TRUE, hi |-> hi, lo |-> lo % 65536])

\* u32::from_str_radix(s, 16)
u32_from_str_radix(s) ==
    IF s = <<>> THEN [ok |-> FALSE, hi |-> 0, lo |-> 0]
    ELSE IF Head(s) = "+"
    THEN (IF Len(s) = 1 THEN [ok |-> FALSE, hi |-> 0, lo |-> 0]
          ELSE HexToU32(Tail(s), [ok |-> TRUE, hi |-> 0, lo |-> 0]))
    ELSE HexToU32(s, [ok |-> TRUE, hi |-> 0, lo |-> 0])

\* f32::from_str for the "ss.ddd" field, in milliseconds: digits with at
\* most one decimal point (sign, exponent, inf and nan forms are outside
\* the modelled alphabet); digits after the third decimal are dropped
f32_from_str(s) ==
    LET p  == IF \E i \in 1..Len(s) : s[i] = "."
              THEN CHOOSE i \in 1..Len(s) : s[i] = "." /\ \A j \in 1..(i - 1) : s[j] # "."
              ELSE Len(s) + 1
        ip == SubSeq(s, 1, p - 1)
        fp == SubSeq(s, p + 1, Len(s))
        f3 == SubSeq(fp \o <<"0", "0", "0">>, 1, 3)
        iv == IF ip = <<>> THEN 0 ELSE DigitsToInt(ip, 10, 1000000, 0)
        fa == IF fp = <<>> THEN 0 ELSE DigitsToInt(fp, 10, 1000000, 0)
        fv == DigitsToInt(f3, 10, 1000, 0)
    IN  IF ip = <<>> /\ fp = <<>> THEN -1
        ELSE IF iv < 0 \/ fa < 0 \/ fv < 0 THEN -1
        ELSE iv * 1000 + fv

(***************************************************************************)
(* yd.rs: Raw::from, one line of text to a raw frame.                      *)
(***************************************************************************)
ParseFail(e) == [ok |-> FALSE, panic |-> FALSE, err |-> e]
ParsePanic == [ok |-> FALSE, panic |-> TRUE, err |-> "panic"]

\* &t[a..b]: the caller checks b <= Len(t), otherwise the slice panics
Slice(t, a, b) == SubSeq(t, a + 1, b)

\* the derivation with the PDU1 / PDU2 boundary off by one
DeriveFields_boundary(msgid) ==
    LET pf   == AsU8(Shr32(msgid, 16))
        ps   == AsU8(Shr32(msgid, 8))
        rdp  == AsU8(BitAnd(Shr32(msgid, 24), 3))
        src  == U32AsU8(msgid)
        prio == AsU8(BitAnd(Shr32(msgid, 26), 7))
    IN  IF pf <= 240
        THEN [prio |-> prio, src |-> src, dest |-> ps,
              pgn |-> Shl(rdp, 16) + Shl(pf, 8)]
        ELSE [prio |-> prio, src |-> src, dest |-> 255,
              pgn |-> Shl(rdp, 16) + Shl(pf, 8) + ps]

\* the ISO 11783 fields derived from the 29-bit identifier
DeriveFields(msgid) ==
    LET pf   == AsU8(Shr32(msgid, 16))
        ps   == AsU8(Shr32(msgid, 8))
        rdp  == AsU8(BitAnd(Shr32(msgid, 24), 3))
        src  == U32AsU8(msgid)
        prio == AsU8(BitAnd(Shr32(msgid, 26), 7))
    IN  IF pf < 240
        THEN [prio |-> prio, src |-> src, dest |-> ps,
              pgn |-> Shl(rdp, 16) + Shl(pf, 8)]
        ELSE [prio |-> prio, src |-> src, dest |-> 255,
              pgn |-> Shl(rdp, 16) + Shl(pf, 8) + ps]

\* a match on the direction that ignores case
direction_of_nocase(d) ==
    IF d = <<"R">> \/ d = <<"r">> THEN "Received"
    ELSE IF d = <<"T">> \/ d = <<"t">> THEN "Transmitted"
    ELSE "InvalidField"

\* match d { "R" => Received, "T" => Transmitted, _ => return Err(InvalidField) }
direction_of(d) ==
    IF d = <<"R">> THEN "Received"
    ELSE IF d = <<"T">> THEN "Transmitted"
    ELSE "InvalidField"

\* a loop over every remaining field
DataFields_all(line) == Len(line) - 3

\* fields.zip(0..8): the number of data fields the loop parses
DataFields(line) == Min(Len(line) - 3, 8)

Raw_from(line) ==
    IF Len(line) < 1 THEN ParseFail("IteratorError")
    ELSE
    LET t == line[1] IN
    IF Len(t) < 2 THEN ParsePanic
    ELSE IF from_str_radix(Slice(t, 0, 2), 10, U8Max) < 0 THEN ParseFail("ParseIntError")
    ELSE IF Len(t) < 5 THEN ParsePanic
    ELSE IF from_str_radix(Slice(t, 3, 5), 10, U8Max) < 0 THEN ParseFail("ParseIntError")
    ELSE IF Len(t) < 12 THEN ParsePanic
    ELSE IF f32_from_str(Slice(t, 6, 12)) < 0 THEN ParseFail("ParseFloatError")
    ELSE IF Len(line) < 2 THEN ParseFail("IteratorError")
    ELSE IF direction_of(line[2]) = "InvalidField" THEN ParseFail("InvalidField")
    ELSE IF Len(line) < 3 THEN ParseFail("IteratorError")
    ELSE IF ~u32_from_str_radix(line[3]).ok THEN ParseFail("ParseIntError")
    ELSE
    LET id    == u32_from_str_radix(line[3])
        msgid == U32(id.hi, id.lo)
        n     == DataFields(line)
        f     == DeriveFields(msgid)
    IN  IF \E i \in 0..(n - 1) : from_str_radix(line[4 + i], 16, U8Max) < 0
        THEN ParseFail("ParseIntError")
        ELSE [ok |-> TRUE, panic |-> FALSE, err |-> "none",
              raw |-> [timestamp |-> << from_str_radix(Slice(t, 0, 2), 10, U8Max),
                                        from_str_radix(Slice(t, 3, 5), 10, U8Max),
                                        f32_from_str(Slice(t, 6, 12)) >>,
                       direction |-> direction_of(line[2]),
                       msgid |-> msgid,
                       data |-> [i \in 0..7 |->
                                   IF i < n THEN from_str_radix(line[4 + i], 16, U8Max) ELSE 0],
                       prio |-> f.prio, pgn |-> f.pgn, src |-> f.src, dest |-> f.dest]]

(***************************************************************************)
(* The PGN catalogue: message_type!(name, PGN, BYTES, FAST).               *)
(* mod.rs also dispatches on TimeDateMessage::PGN, whose definition is not *)
(* part of the sources.                                                    *)
(***************************************************************************)
WindMessage_PGN == 130306
PositionRapidUpdateMessage_PGN == 129025
GNSSPositionData_PGN == 129029
VesselHeadingMessage_PGN == 127250
CogSogRapidUpdateMessage_PGN == 129026
SpeedMessage_PGN == 128259
RateOfTurnMessage_PGN == 127251
AttitudeMessage_PGN == 127257
RudderMessage_PGN == 127245
\* TimeDateMessage is named in the dispatch of parse_from_raw (mod.rs:143) and
\* defined in none of the sources: taken as the NMEA 2000 "Local Time Offset"
\* group, one frame of date (days, u16), time (1e-4 s, u32) and local offset
\* (minutes, i16)
TimeDateMessage_PGN == 129033

\* the dispatch of parse_from_raw with one more arm (PGN 127488)
CataloguePGNs_more ==
    { WindMessage_PGN, PositionRapidUpdateMessage_PGN, GNSSPositionData_PGN,
      VesselHeadingMessage_PGN, CogSogRapidUpdateMessage_PGN, SpeedMessage_PGN,
      RateOfTurnMessage_PGN, AttitudeMessage_PGN, RudderMessage_PGN, 127488 }

CataloguePGNs ==
    { WindMessage_PGN, PositionRapidUpdateMessage_PGN, GNSSPositionData_PGN,
      VesselHeadingMessage_PGN, CogSogRapidUpdateMessage_PGN, SpeedMessage_PGN,
      RateOfTurnMessage_PGN, AttitudeMessage_PGN, RudderMessage_PGN }

\* the arms of "match raw.pgn()" in parse_from_raw
DispatchPGNs == CataloguePGNs \cup {TimeDateMessage_PGN}

BYTES(pgn) ==
    CASE pgn = GNSSPositionData_PGN -> 43
      [] pgn = RateOfTurnMessage_PGN -> 5
      [] pgn = AttitudeMessage_PGN -> 7
      [] OTHER -> 8

FAST(pgn) == pgn = GNSSPositionData_PGN

\* $type_name::new(): #[derive(Default)], every field zero / empty
new(pgn) ==
    [pgn |-> pgn, timestamp |-> <<0, 0, 0>>, prio |-> 0, src |-> 0, dest |-> 0,
     data |-> <<>>, counter_mask |-> 0, next_packet |-> 0, remaining_bytes |-> 0]

is_complete(m) == m.remaining_bytes = 0

(***************************************************************************)
(* yd.rs: Raw::write, one frame applied to a message.                      *)
(* next_packet is a u8: "+= 1" at 255 panics in a build with overflow      *)
(* checks and wraps to 0 without them; wrap selects the build.             *)
(***************************************************************************)
\* a slice that begins one byte early
DataSlice_early(d, a, b) == [i \in 1..(b - a) |-> d[a + i - 2]]

\* self.data[a..b].to_vec()
DataSlice(d, a, b) == [i \in 1..(b - a) |-> d[a + i - 1]]

WriteOk(m) == [status |-> "Ok", m |-> m]
WriteErr(e, m) == [status |-> e, m |-> m]

\* the header fields every accepted first frame copies from the raw frame
CopyHeader(raw, m) ==
    [m EXCEPT !.timestamp = raw.timestamp, !.src = raw.src,
              !.dest = raw.dest, !.prio = raw.prio]

Increment(n) == (n + 1) % 256

\* the first frame of a transmission applied without the length check
write_first_unchecked(raw, m) ==
    WriteOk([CopyHeader(raw, m) EXCEPT
                !.counter_mask = raw.data[0],
                !.next_packet = Increment(m.next_packet),
                !.remaining_bytes = BYTES(m.pgn) - 6,
                !.data = m.data \o DataSlice(raw.data, 2, 8)])

\* "we are just starting this new fast package": the first frame
write_first(raw, m) ==
    IF BYTES(m.pgn) # raw.data[1] THEN WriteErr("UnexpectedLength", m)
    ELSE WriteOk([CopyHeader(raw, m) EXCEPT
                    !.counter_mask = raw.data[0],
                    !.next_packet = Increment(m.next_packet),
                    !.remaining_bytes = BYTES(m.pgn) - 6,
                    !.data = m.data \o DataSlice(raw.data, 2, 8)])

\* a continuation that copies the header of its frame as a first frame does
write_next_header(raw, m) ==
    WriteOk([CopyHeader(raw, m) EXCEPT
                !.data = m.data \o DataSlice(raw.data, 1, Min(m.remaining_bytes + 1, 8)),
                !.remaining_bytes = m.remaining_bytes - Min(m.remaining_bytes, 7),
                !.next_packet = Increment(m.next_packet)])

\* "the packet is the next in series": a continuation frame
write_next(raw, m) ==
    WriteOk([m EXCEPT
                !.data = m.data \o DataSlice(raw.data, 1, Min(m.remaining_bytes + 1, 8)),
                !.remaining_bytes = m.remaining_bytes - Min(m.remaining_bytes, 7),
                !.next_packet = Increment(m.next_packet)])

write(raw, m, wrap) ==
    LET d == raw.data IN
    IF FAST(m.pgn) THEN
        IF m.next_packet = 0 /\ BitAnd(d[0], 31) = 0 THEN write_first(raw, m)
        ELSE IF m.next_packet = BitXor(m.counter_mask, d[0]) THEN
            IF m.next_packet = U8Max /\ ~wrap THEN WriteErr("panic", m)
            ELSE write_next(raw, m)
        ELSE IF BitAnd(d[0], 31) = 0 /\ d[1] = BYTES(m.pgn) THEN
            IF m.next_packet = U8Max /\ ~wrap THEN WriteErr("panic", m)
            ELSE WriteOk([CopyHeader(raw, m) EXCEPT
                            !.counter_mask = d[0],
                            !.next_packet = Increment(m.next_packet),
                            !.remaining_bytes = BYTES(m.pgn) - Min(BYTES(m.pgn), 6),
                            !.data = DataSlice(d, 2, 8)])
        ELSE WriteErr("OutOfSequence", m)
    ELSE
        WriteOk([CopyHeader(raw, m) EXCEPT !.data = m.data \o DataSlice(d, 0, 8)])

(***************************************************************************)
(* nmea2000/mod.rs: Parser::parse_from_raw over the pending table          *)
(* messages: HashMap<(TSrc, TPgn), Box<dyn Message>>.                      *)
(***************************************************************************)
\* a removal that empties the table
Remove_all(tbl, k) == << >>

Remove(tbl, k) == [x \in (DOMAIN tbl) \ {k} |-> tbl[x]]
Insert(tbl, k, v) == [x \in (DOMAIN tbl) \cup {k} |-> IF x = k THEN v ELSE tbl[x]]

None == [some |-> FALSE]
Some(m) == [some |-> TRUE, msg |-> m]

\* parse_from_raw leaving a completed message in the table
parse_from_raw_keep(tbl, raw, wrap) ==
    LET key == <<raw.src, raw.pgn>> IN
    IF key \notin DOMAIN tbl /\ raw.pgn \notin DispatchPGNs
    THEN [messages |-> tbl, ret |-> None, werr |-> "none", panic |-> FALSE]
    ELSE
    LET message == IF key \in DOMAIN tbl THEN tbl[key] ELSE new(raw.pgn)
        removed == Remove(tbl, key)
        w       == write(raw, message, wrap)
    IN  IF w.status = "panic"
        THEN [messages |-> removed, ret |-> None, werr |-> "none", panic |-> TRUE]
        ELSE IF w.status # "Ok"
        THEN [messages |-> removed, ret |-> None, werr |-> w.status, panic |-> FALSE]
        ELSE [messages |-> Insert(removed, key, w.m),
              ret |-> IF is_complete(w.m) THEN Some(w.m) ELSE None,
              werr |-> "none", panic |-> FALSE]

\* parse_from_raw putting the entry back when Raw::write fails
parse_from_raw_reinsert(tbl, raw, wrap) ==
    LET key == <<raw.src, raw.pgn>> IN
    IF key \notin DOMAIN tbl /\ raw.pgn \notin DispatchPGNs
    THEN [messages |-> tbl, ret |-> None, werr |-> "none", panic |-> FALSE]
    ELSE
    LET message == IF key \in DOMAIN tbl THEN tbl[key] ELSE new(raw.pgn)
        removed == Remove(tbl, key)
        w       == write(raw, message, wrap)
    IN  IF w.status = "panic"
        THEN [messages |-> removed, ret |-> None, werr |-> "none", panic |-> TRUE]
        ELSE IF w.status # "Ok"
        THEN [messages |-> tbl, ret |-> None, werr |-> w.status, panic |-> FALSE]
        ELSE IF is_complete(w.m)
        THEN [messages |-> removed, ret |-> Some(w.m), werr |-> "none", panic |-> FALSE]
        ELSE [messages |-> Insert(removed, key, w.m), ret |-> None, werr |-> "none",
              panic |-> FALSE]

parse_from_raw(tbl, raw, wrap) ==
    LET key == <<raw.src, raw.pgn>> IN
    IF key \notin DOMAIN tbl /\ raw.pgn \notin DispatchPGNs
    THEN [messages |-> tbl, ret |-> None, werr |-> "none", panic |-> FALSE]
    ELSE
    LET message == IF key \in DOMAIN tbl THEN tbl[key] ELSE new(raw.pgn)
        removed == Remove(tbl, key)
        w       == write(raw, message, wrap)
    IN  IF w.status = "panic"
        THEN [messages |-> removed, ret |-> None, werr |-> "none", panic |-> TRUE]
        ELSE IF w.status # "Ok"
        THEN [messages |-> removed, ret |-> None, werr |-> w.status, panic |-> FALSE]
        ELSE IF is_complete(w.m)
        THEN [messages |-> removed, ret |-> Some(w.m), werr |-> "none", panic |-> FALSE]
        ELSE [messages |-> Insert(removed, key, w.m), ret |-> None, werr |-> "none",
              panic |-> FALSE]

(***************************************************************************)
(* parser.rs: the earlier parser, Parser::from_raw and Parser::parse over   *)
(* its own table of pending messages.  It is not part of the running       *)
(* program; complete() is is_complete of message.rs.                       *)
(***************************************************************************)
Parser_from_raw(raw, m, wrap) ==
    LET d == raw.data IN
    IF FAST(m.pgn) THEN
        IF m.next_packet = 0 /\ BitAnd(d[0], 31) = 0 THEN
            IF BYTES(m.pgn) # d[1] THEN WriteErr("Unexpected length for fast packet.", m)
            ELSE WriteOk([CopyHeader(raw, m) EXCEPT
                            !.counter_mask = d[0],
                            !.next_packet = Increment(m.next_packet),
                            !.remaining_bytes = BYTES(m.pgn) - 6,
                            !.data = m.data \o DataSlice(d, 2, 8)])
        ELSE IF m.next_packet = BitXor(m.counter_mask, d[0]) THEN
            IF m.next_packet = U8Max /\ ~wrap THEN WriteErr("panic", m)
            ELSE WriteOk([m EXCEPT
                            !.data = m.data \o DataSlice(d, 1, Min(m.remaining_bytes + 1, 8)),
                            !.remaining_bytes = m.remaining_bytes - Min(m.remaining_bytes, 7),
                            !.next_packet = Increment(m.next_packet)])
        ELSE IF BitAnd(d[0], 31) = 0 /\ d[1] = BYTES(m.pgn) THEN
            WriteOk([CopyHeader(raw, m) EXCEPT
                        !.counter_mask = d[0],
                        !.next_packet = 1,
                        !.remaining_bytes = BYTES(m.pgn) - 6,
                        !.data = DataSlice(d, 2, 8)])
        ELSE WriteErr("Fast packet not in sequence.", m)
    ELSE
        LET data == m.data \o DataSlice(d, 0, BYTES(m.pgn)) IN
        WriteOk([CopyHeader(raw, m) EXCEPT
                    !.data = data,
                    !.remaining_bytes = BYTES(m.pgn) - Len(data)])

Parser_parse(tbl, raw, wrap) ==
    LET key == <<raw.src, raw.pgn>> IN
    IF key \notin DOMAIN tbl /\ raw.pgn \notin CataloguePGNs
    THEN [messages |-> tbl, ret |-> None, panic |-> FALSE]
    ELSE
    LET message == IF key \in DOMAIN tbl THEN tbl[key] ELSE new(raw.pgn)
        removed == Remove(tbl, key)
        w       == Parser_from_raw(raw, message, wrap)
    IN  IF w.status = "panic"
        THEN [messages |-> removed, ret |-> None, panic |-> TRUE]
        ELSE IF w.status # "Ok"
        THEN [messages |-> removed, ret |-> None, panic |-> FALSE]
        ELSE IF is_complete(w.m)
        THEN [messages |-> removed, ret |-> Some(w.m), panic |-> FALSE]
        ELSE [messages |-> Insert(removed, key, w.m), ret |-> None, panic |-> FALSE]

(***************************************************************************)
(* The values of a completed message and their merge into the State.       *)
(* Units of the fixed-point values: speeds 0.01 m/s, angles 1e-4 rad,      *)
(* latitude / longitude as the little-endian bytes of the raw integer and  *)
(* the decimal scale; the State holds centi-knots and centi-degrees.       *)
(***************************************************************************)
At(m, i) == m.data[i + 1]
u16_from_le_bytes(a, b) == a + 256 * b
i16_from_le_bytes(a, b) == IF b >= 128 THEN a + 256 * b - 65536 ELSE a + 256 * b
i32_from_le_bytes(a, b, c, d) ==
    a + 256 * b + 65536 * c + 16777216 * (IF d >= 128 THEN d - 256 ELSE d)

\* the raw integer read with from_be_bytes
Degrees_be(scale, le) == [scale |-> scale, le |-> [i \in 1..Len(le) |-> le[Len(le) + 1 - i]]]

Degrees(scale, le) == [scale |-> scale, le |-> le]
ZeroDegrees == Degrees(0, <<>>)

Value(tag, v) == [tag |-> tag, v |-> v]

values(m) ==
    <<Value("Timestamp", m.timestamp)>> \o
    CASE m.pgn = WindMessage_PGN ->
            << Value("WindSpeed", u16_from_le_bytes(At(m, 1), At(m, 2))),
               Value("WindAngle", u16_from_le_bytes(At(m, 3), At(m, 4))) >>
      [] m.pgn = PositionRapidUpdateMessage_PGN ->
            << Value("Latitude", Degrees(7, SubSeq(m.data, 1, 4))),
               Value("Longitude", Degrees(7, SubSeq(m.data, 5, 8))) >>
      [] m.pgn = GNSSPositionData_PGN ->
            << Value("Latitude", Degrees(16, SubSeq(m.data, 8, 15))),
               Value("Longitude", Degrees(16, SubSeq(m.data, 16, 23))) >>
      [] m.pgn = VesselHeadingMessage_PGN ->
            << Value("Heading", u16_from_le_bytes(At(m, 1), At(m, 2))) >>
      [] m.pgn = CogSogRapidUpdateMessage_PGN ->
            << Value("CourseOverGround", u16_from_le_bytes(At(m, 2), At(m, 3))),
               Value("SpeedOverGround", u16_from_le_bytes(At(m, 4), At(m, 5))) >>
      [] m.pgn = SpeedMessage_PGN ->
            << Value("SpeedThroughWater", u16_from_le_bytes(At(m, 1), At(m, 2))) >>
      [] m.pgn = RateOfTurnMessage_PGN ->
            \* raw * 3.125e-8 rad/s = raw / 3200 in 1e-4 rad/s
            << Value("RateOfTurn",
                     i32_from_le_bytes(At(m, 1), At(m, 2), At(m, 3), At(m, 4)) \div 3200) >>
      [] m.pgn = AttitudeMessage_PGN ->
            << Value("Yaw", i16_from_le_bytes(At(m, 1), At(m, 2))),
               Value("Pitch", i16_from_le_bytes(At(m, 3), At(m, 4))),
               Value("Roll", i16_from_le_bytes(At(m, 5), At(m, 6))) >>
      [] m.pgn = RudderMessage_PGN ->
            << Value("RudderAngle", i16_from_le_bytes(At(m, 4), At(m, 5))) >>
      [] m.pgn = TimeDateMessage_PGN ->
            \* the time in whole seconds
            << Value("Date", u16_from_le_bytes(At(m, 0), At(m, 1))),
               Value("Time", i32_from_le_bytes(At(m, 2), At(m, 3), At(m, 4), At(m, 5))
                                \div 10000),
               Value("LocalOffset", i16_from_le_bytes(At(m, 6), At(m, 7))) >>
      [] OTHER -> << >>

\* val * 360 / 2 / PI, from 1e-4 rad to centi-degrees
to_degrees(val) == (val * 5730) \div 10000
\* val * 1.9438446, from 0.01 m/s to centi-knots
to_knots(val) == (val * 19438) \div 10000
\* PI in 1e-4 rad, rounded down
PI == 31415

\* to_date_time: seconds since 1970 of days, seconds and the local offset
to_date_time(days, seconds, localoffset) == days * 86400 + seconds + localoffset * 60

\* State::new(nmea_date)
State_new(nmea_date) ==
    [date_time |-> 0, days |-> 0, seconds |-> 0, localoffset |-> 0,
     timestamp |-> <<0, 0, 0>>, awa |-> 0, aws |-> 0,
     latitude |-> ZeroDegrees, longitude |-> ZeroDegrees,
     hdg |-> 0, cog |-> 0, sog |-> 0, stw |-> 0, rot |-> 0,
     pitch |-> 0, yaw |-> 0, roll |-> 0, rudder_angle |-> 0,
     nmea_date |-> nmea_date, got_nmea_date |-> FALSE]

\* a rudder filter without the lower limit
in_range_upper(ra) == ra <= PI

\* the rudder filter: (ra <= PI as f32) && (ra >= -PI as f32), ra in 1e-4 rad
in_range(ra) == ra <= PI /\ ra >= -PI

\* one arm of the match in State::update
UpdateEntry(s, e) ==
    CASE e.tag = "Timestamp" -> [s EXCEPT !.timestamp = e.v]
      [] e.tag = "Date" ->
            [s EXCEPT !.days = e.v,
                      !.date_time = to_date_time(e.v, s.seconds, s.localoffset)]
      [] e.tag = "Time" ->
            [s EXCEPT !.seconds = e.v,
                      !.date_time = to_date_time(s.days, e.v, s.localoffset)]
      [] e.tag = "LocalOffset" ->
            [s EXCEPT !.localoffset = e.v,
                      !.date_time = to_date_time(s.days, s.seconds, e.v),
                      !.got_nmea_date = TRUE]
      [] e.tag = "WindSpeed" -> [s EXCEPT !.aws = to_knots(e.v)]
      [] e.tag = "WindAngle" -> [s EXCEPT !.awa = to_degrees(e.v)]
      [] e.tag = "Latitude" -> [s EXCEPT !.latitude = e.v]
      [] e.tag = "Longitude" -> [s EXCEPT !.longitude = e.v]
      [] e.tag = "Heading" -> [s EXCEPT !.hdg = to_degrees(e.v)]
      [] e.tag = "CourseOverGround" -> [s EXCEPT !.cog = to_degrees(e.v)]
      [] e.tag = "SpeedOverGround" -> [s EXCEPT !.sog = to_knots(e.v)]
      [] e.tag = "SpeedThroughWater" -> [s EXCEPT !.stw = to_knots(e.v)]
      [] e.tag = "RateOfTurn" -> [s EXCEPT !.rot = to_degrees(e.v)]
      [] e.tag = "Yaw" -> [s EXCEPT !.yaw = to_degrees(e.v)]
      [] e.tag = "Pitch" -> [s EXCEPT !.pitch = to_degrees(e.v)]
      [] e.tag = "Roll" -> [s EXCEPT !.roll = to_degrees(e.v)]
      [] e.tag = "RudderAngle" ->
            IF in_range(e.v) THEN [s EXCEPT !.rudder_angle = to_degrees(e.v)]
            ELSE s

RECURSIVE UpdateAll(_, _)
UpdateAll(s, vs) ==
    IF vs = <<>> THEN s ELSE UpdateAll(UpdateEntry(s, Head(vs)), Tail(vs))

\* an update that merges the message into a new state
State_update_reset(s, m) == UpdateAll(State_new(s.nmea_date), values(m))

\* an update that merges the timestamp only
State_update_timestamp(s, m) == [s EXCEPT !.timestamp = m.timestamp]

\* State::update(message)
State_update(s, m) == UpdateAll(s, values(m))

\* a formatter that writes a data line for every state
fmt_writes_always(s) == TRUE

\* a formatter that never writes a line with the bus date
fmt_writes_undated(s) == ~s.nmea_date

\* State::fmt writes a data line unless it waits for a bus date
fmt_writes_line(s) == ~s.nmea_date \/ s.got_nmea_date

(***************************************************************************)
(* Input lines.  The capture device emits the format of Raw::fmt:          *)
(* "hh:mm:ss.ddd D IIIIIIII b0 .. b7" with upper-case hex fields.          *)
(***************************************************************************)
HexByte(b) == <<HexUpper[(b \div 16) + 1], HexUpper[(b % 16) + 1]>>
Hex32(x) ==
    HexByte(x.hi \div 256) \o HexByte(x.hi % 256) \o HexByte(x.lo \div 256) \o HexByte(x.lo % 256)

Line(ts, dir, id, bytes) ==
    <<ts, dir, Hex32(id)>> \o [i \in 1..Len(bytes) |-> HexByte(bytes[i])]

\* the identifier of a broadcast (PDU2) PGN sent with a priority by a source
MsgId(prio, pgn, src) == U32(prio * 1024 + pgn \div 256, (pgn % 256) * 256 + src)

T1 == <<"1", "7", ":", "3", "3", ":", "2", "1", ".", "1", "4", "1">>
T2 == <<"1", "7", ":", "3", "3", ":", "2", "2", ".", "5", "0", "0">>
T3 == <<"1", "7", ":", "3", "3", ":", "2", "3", ".", "0", "0", "0">>
DirR == <<"R">>

Sources == <<21, 22>>
SrcA == Sources[1]
SrcB == Sources[2]

\* payload byte j of frame idx of the transmission with rolling counter ctr:
\* all bytes of the two modelled transmissions are different
PayloadByte(ctr, idx, j) == 64 + 64 * ctr + 8 * idx + j

\* frame idx of a fast-packet transmission; a first frame announces len bytes
FastBytes(ctr, idx, len) ==
    IF idx = 0
    THEN <<32 * ctr, len>> \o [j \in 1..6 |-> PayloadByte(ctr, 0, j + 1)]
    ELSE <<32 * ctr + idx>> \o [j \in 1..7 |-> PayloadByte(ctr, idx, j)]

FastLine(src, ctr, idx, len) ==
    Line(IF idx > 0 THEN T3 ELSE IF ctr = 0 THEN T1 ELSE T2, DirR,
         MsgId(2, GNSSPositionData_PGN, src), FastBytes(ctr, idx, len))

\* the 43 bytes the sender of the transmission with rolling counter ctr split
\* into frames: 6 bytes in the first frame, 7 in each of the following
GnssPayload(ctr) ==
    [p \in 1..43 |->
        IF p <= 6 THEN PayloadByte(ctr, 0, p + 1)
        ELSE PayloadByte(ctr, 1 + ((p - 7) \div 7), ((p - 7) % 7) + 1)]

Counters == {0, 1}
FrameIndices == 0..6

FastLines ==
    { FastLine(SrcA, c, i, 43) : c \in Counters, i \in FrameIndices }
    \cup { FastLine(SrcA, 0, 0, 42) }
    \cup { FastLine(SrcB, 0, i, 43) : i \in 0..1 }

\* the example line of the parser documentation (nmea2000/mod.rs:119)
ExampleLine ==
    << T1, DirR, <<"0", "9", "F", "8", "0", "1", "1", "5">>,
       <<"A", "0">>, <<"7", "D">>, <<"E", "6">>, <<"1", "8">>,
       <<"C", "0">>, <<"0", "5">>, <<"F", "B">>, <<"D", "5">> >>

SingleBytes == <<1, 232, 3, 16, 39, 5, 251, 213>>

SingleLines ==
    { Line(T2, DirR, MsgId(2, p, SrcA), SingleBytes) : p \in CataloguePGNs \ {GNSSPositionData_PGN} }
    \cup { ExampleLine }

\* PGN 127488 (broadcast) and PGN 59904 (addressed to 0x23): not in the catalogue
UnknownLines ==
    { Line(T2, DirR, MsgId(3, 127488, SrcA), SingleBytes),
      Line(T2, DirR, U32(6378, 8981), SingleBytes) }

BadLines ==
    { <<>>,
      << T1, DirR >>,
      << T1, <<"X">>, Hex32(MsgId(2, WindMessage_PGN, SrcA)) >>,
      << <<"1", "7", ":", "x", "3", ":", "2", "1", ".", "1", "4", "1">>, DirR,
         Hex32(MsgId(2, WindMessage_PGN, SrcA)) >>,
      << T1, DirR, Hex32(MsgId(2, WindMessage_PGN, SrcA)), <<"Z", "Z">> >>,
      << <<"1", "7", ":", "3", "3">>, DirR, Hex32(MsgId(2, WindMessage_PGN, SrcA)) >> }

\* replay of a capture file: every kind of line
Lines == FastLines \cup SingleLines \cup UnknownLines \cup BadLines

\* the live stream: one line of each kind
LiveLines ==
    { ExampleLine, Line(T2, DirR, MsgId(2, WindMessage_PGN, SrcA), SingleBytes),
      FastLine(SrcA, 0, 0, 43), Line(T2, DirR, MsgId(3, 127488, SrcA), SingleBytes),
      << T1, <<"X">>, Hex32(MsgId(2, WindMessage_PGN, SrcA)) >>,
      << <<"1", "7", ":", "3", "3">>, DirR, Hex32(MsgId(2, WindMessage_PGN, SrcA)) >> }

\* a capture of one source sending fast-packet transmissions
SequenceLines ==
    { FastLine(SrcA, c, i, 43) : c \in Counters, i \in FrameIndices }
    \cup { FastLine(SrcA, 0, 0, 42) }

\* a capture of rudder messages: raw angles at and around the limits of the
\* filter and of i16, in 1e-4 rad
RudderRaws == {0, 1319, -1, 31415, 31416, -31415, -31416, 32767, -32768}
RudderBytes(ra) ==
    LET u == IF ra < 0 THEN ra + 65536 ELSE ra
    IN  <<252, 255, 255, 127, u % 256, u \div 256, 255, 255>>
RudderLines ==
    { Line(t, DirR, MsgId(2, RudderMessage_PGN, SrcA), RudderBytes(ra)) :
        t \in {T1, T2}, ra \in RudderRaws }

\* a capture of single-frame messages of every kind, each kind with two
\* payloads, and a rudder angle beyond pi
AltBytes == <<2, 100, 0, 200, 0, 16, 39, 0>>
UpdateLines ==
    SingleLines
    \cup { Line(T1, DirR, MsgId(2, p, SrcB), AltBytes) :
             p \in CataloguePGNs \ {GNSSPositionData_PGN} }
    \cup { Line(T3, DirR, MsgId(2, RudderMessage_PGN, SrcA), RudderBytes(31416)) }

\* a capture of lines cut short and of lines with every kind of direction
\* token
DirT == <<"T">>
ShortTime == <<"1", "7", ":", "3", "3">>
BadTime == <<"1", "7", ":", "x", "3", ":", "2", "1", ".", "1", "4", "1">>
Directions == {DirR, DirT, <<"r">>, <<"t">>, <<"X">>, <<"R", "T">>, <<"R", "x">>}
ParseLines ==
    { << >>, << T1 >>, << ShortTime >>, << BadTime >>,
      << T1, DirR >>, << T2, DirT >>, << T1, <<"X">> >>, << ShortTime, DirR >>,
      << BadTime, <<"X">>, Hex32(MsgId(2, WindMessage_PGN, SrcA)) >> }
    \cup { Line(t, d, MsgId(2, p, SrcA), SingleBytes) :
             t \in {T1, T2}, d \in Directions,
             p \in {WindMessage_PGN, VesselHeadingMessage_PGN} }

\* a capture of two sources: one sends a whole transmission and single-frame
\* messages, the other begins a transmission
TableLines ==
    { FastLine(SrcA, 0, i, 43) : i \in FrameIndices }
    \cup { FastLine(SrcB, 0, i, 43) : i \in 0..1 }
    \cup { Line(T2, DirR, MsgId(2, WindMessage_PGN, SrcA), SingleBytes) }

\* frame idx of the transmission of a source in a capture of two sources:
\* the first frames differ in timestamp and priority from each other and
\* from the continuation frames
InterleavedLine(src, ctr, idx) ==
    Line(IF idx > 0 THEN T3 ELSE IF ctr = 0 THEN T1 ELSE T2, DirR,
         MsgId(IF idx > 0 THEN 6 ELSE 2 + ctr, GNSSPositionData_PGN, src),
         FastBytes(ctr, idx, 43))

\* a capture of first frames of one transmission, some announcing 42 bytes
LengthLines == { FastLine(SrcA, 1, 0, 43), FastLine(SrcA, 1, 0, 42) }

\* a capture with the bus date: day 20000, 12:00:00, local offset 60 minutes
DateBytes == <<32, 78, 0, 204, 191, 25, 60, 0>>
DateLine == Line(T2, DirR, MsgId(3, TimeDateMessage_PGN, SrcA), DateBytes)
DateLines ==
    { ExampleLine, DateLine, FastLine(SrcA, 0, 0, 43),
      Line(T3, DirR, MsgId(2, VesselHeadingMessage_PGN, SrcA), SingleBytes) }

\* a capture of lines with 0 to 10 data fields, the i-th field the byte
\* 0x11 * i, and of lines with a field that is no hex number
FieldByte(i) == 17 * i
FieldLine(pgn, k) == Line(T1, DirR, MsgId(2, pgn, SrcA), [i \in 1..k |-> FieldByte(i)])
NoHex == <<"Z", "Z">>
JunkAt(k, j) == [i \in 1..(k + 3) |-> IF i = j + 3 THEN NoHex ELSE FieldLine(WindMessage_PGN, k)[i]]
FieldLines ==
    { FieldLine(p, k) : p \in {WindMessage_PGN, 127488}, k \in 0..10 }
    \cup { JunkAt(9, 9), JunkAt(10, 10), JunkAt(8, 8), JunkAt(3, 2) }

\* a capture of first frames only
BurstLines == { FastLine(SrcA, c, 0, 43) : c \in Counters }

\* a capture sweeping the identifier: the bits above the 29-bit identifier,
\* priority and data page, PDU formats on both sides of 240, PDU specifics
\* and source addresses
IdTops == {9, 29, 255}
IdFormats == {0, 234, 239, 240, 248, 255}
IdSpecifics == {0, 35, 255}
IdSources == {21, 255}
IdLines ==
    { Line(T1, DirR, U32(256 * b3 + pf, 256 * ps + sa), SingleBytes) :
        b3 \in IdTops, pf \in IdFormats, ps \in IdSpecifics, sa \in IdSources }


(***************************************************************************)
(* Observers of the input: the in-order transmission the recent frames of  *)
(* one key form, as the sender meant it.  They record what was fed, not    *)
(* what the parser did with it.                                            *)
(***************************************************************************)
KeyOf(r) == <<r.src, r.pgn>>
ValidStart(r) == FAST(r.pgn) /\ BitAnd(r.data[0], 31) = 0 /\ r.data[1] = BYTES(r.pgn)

NoSeq == [key |-> <<0, 0>>, n |-> 0, ctr |-> 0, bytes |-> <<>>, pre |-> "none",
          afterfail |-> FALSE, hit |-> FALSE]

\* pre: what the first frame met: "empty" (an empty table), "absent" (no entry
\* for its key), "restart" (the entry left by a transmission that had begun on
\* an empty table and was fed in order so far), "other"
SeqNext(sq, tbl, fl, r) ==
    LET key == KeyOf(r) IN
    IF ~FAST(r.pgn) THEN [sq EXCEPT !.hit = FALSE]
    ELSE IF ValidStart(r)
    THEN [key |-> key, n |-> 1, ctr |-> r.data[0], bytes |-> DataSlice(r.data, 2, 8),
          pre |-> IF tbl = << >> THEN "empty"
                  ELSE IF key \notin DOMAIN tbl THEN "absent"
                  ELSE IF sq.key = key /\ sq.n \in 1..6 /\ sq.pre = "empty" THEN "restart"
                  ELSE "other",
          afterfail |-> key \in fl, hit |-> TRUE]
    ELSE IF sq.key = key /\ sq.n \in 1..6 /\ r.data[0] = sq.ctr + sq.n
    THEN [sq EXCEPT !.n = sq.n + 1, !.hit = TRUE,
                    !.bytes = sq.bytes \o DataSlice(r.data, 1, Min(BYTES(r.pgn) - Len(sq.bytes) + 1, 8))]
    ELSE IF sq.key = key THEN NoSeq
    ELSE [sq EXCEPT !.hit = FALSE]

(***************************************************************************)
(* The program: main.rs.                                                   *)
(***************************************************************************)
MaxLines == 3
MaxSequenceLines == 9
MaxBurstLines == 258
MaxIdLines == 2
MaxReports == 2
MaxRudderLines == 3
MaxUpdateLines == 3
MaxParseLines == 3
MaxTableLines == 8
MaxInterleavedLines == 15
MaxDateLines == 3
MaxFieldLines == 2
MaxLengthLines == 258

VARIABLES
    reading_from_file,  \* main: input is a file (replay) or the UDP stream (live)
    messages,           \* Parser.messages, the pending table
    state,              \* the State (behind the Mutex in live mode)
    lock,               \* holder of the Mutex: "free", "reader", "writer"
    rpc,                \* ingestion loop: "start", "read", "merge", "update", "failed",
                        \* "panicked", "eof"
    wpc,                \* write_thread: "headline", "lock", "write", "drop", "sleep";
                        \* "none" in replay
    entries,            \* State::update under the lock: the values still to be applied
    line,               \* the last line read
    raw,                \* the frame of the last line that parsed
    found,              \* the last parser.parse call: messages.remove(key) returned an entry
    message,            \* the Option returned by the last parser.parse call
    perr,               \* the error of the last Raw::from, "none" when it parsed
    werr,               \* the last parser.parse call: the error Raw::write returned, or "none"
    headlines,          \* number of headlines written to the sink
    reports,            \* number of data lines written to the sink
    nlines,             \* number of lines read
    seq,                \* observer: the in-order transmission being fed
    failed,             \* observer: keys whose latest frame was rejected by Raw::write
    merged,             \* observer: the messages whose State::update returned, merged
                        \* in that order into the initial state
    sent,               \* observer of the input, per source: pos, the frames of its
                        \* transmission read so far; fresh, the transmission began with
                        \* none of this source under way
    mpc                 \* main, live: "join" at writer_handle.join(), "exited"; "none" in replay

vars == << reading_from_file, messages, state, lock, rpc, wpc, entries, line, raw, found,
           message, perr, werr, headlines, reports, nlines, seq, failed, merged, sent, mpc >>

NoRaw == [pgn |-> 0, src |-> 0]

Init ==
    /\ reading_from_file \in BOOLEAN
    /\ messages = << >>
    /\ \E nmea_date \in BOOLEAN :
          state = State_new(IF reading_from_file THEN TRUE ELSE nmea_date)
    /\ lock = "free"
    /\ rpc = IF reading_from_file THEN "start" ELSE "read"
    /\ wpc = IF reading_from_file THEN "none" ELSE "headline"
    /\ line = << >>
    /\ raw = NoRaw
    /\ found = FALSE
    /\ message = None
    /\ perr = "none"
    /\ werr = "none"
    /\ headlines = 0
    /\ reports = 0
    /\ nlines = 0
    /\ seq = NoSeq
    /\ failed = {}
    /\ entries = << >>
    /\ merged = state
    /\ sent = [i \in 1..2 |-> [pos |-> 0, fresh |-> TRUE]]
    /\ mpc = IF reading_from_file THEN "none" ELSE "join"

\* main, replay: the headline is written before the loop
MainHeadline ==
    /\ reading_from_file /\ rpc = "start"
    /\ headlines' = headlines + 1
    /\ rpc' = "read"
    /\ UNCHANGED << reading_from_file, messages, state, lock, wpc, line, raw, found, message,
                    perr, werr, reports, nlines, seq, failed, entries, merged, sent, mpc >>

\* a sequencing error of Raw::write leaving the loop like an Err of Raw::from
Continue_propagate(r, live) ==
    IF r.panic THEN "panicked"
    ELSE IF r.werr # "none" THEN "failed"
    ELSE IF r.ret.some /\ live THEN "merge"
    ELSE "read"

\* where the loop goes after parser.parse returned Ok: "if let Some(message)"
Continue(r, live) ==
    IF r.panic THEN "panicked"
    ELSE IF r.ret.some /\ live THEN "merge"
    ELSE "read"

\* parser.parse(&line): Raw::from, then parse_from_raw; an Err of Raw::from
\* leaves through "?" and ends the loop, a panic unwinds the thread
ParseLine(l, p, wrap) ==
    /\ nlines' = nlines + 1
    /\ line' = l
    /\ IF ~p.ok
       THEN /\ perr' = p.err
            /\ rpc' = IF p.panic THEN "panicked" ELSE "failed"
            /\ message' = None
            /\ found' = FALSE
            /\ werr' = "none"
            /\ seq' = [seq EXCEPT !.hit = FALSE]
            /\ UNCHANGED << messages, raw, failed >>
       ELSE LET r == parse_from_raw(messages, p.raw, wrap) IN
            /\ perr' = "none"
            /\ raw' = p.raw
            /\ found' = (KeyOf(p.raw) \in DOMAIN messages)
            /\ messages' = r.messages
            /\ werr' = r.werr
            /\ message' = r.ret
            /\ rpc' = Continue(r, ~reading_from_file)
            /\ seq' = SeqNext(seq, messages, failed, p.raw)
            /\ failed' = IF r.werr # "none" THEN failed \cup {KeyOf(p.raw)}
                         ELSE failed \ {KeyOf(p.raw)}

\* the builds that differ on this step: with and without overflow checks
Builds(tbl) ==
    IF \E k \in DOMAIN tbl : tbl[k].next_packet = U8Max THEN BOOLEAN ELSE {TRUE}

\* a replay turn that stamps the state with the time of every frame parsed
ReplayOne_touch(l) ==
    /\ \E wrap \in Builds(messages) :
          /\ ParseLine(l, Raw_from(l), wrap)
          /\ IF message'.some
             THEN /\ state' = State_update(state, message'.msg)
                  /\ reports' = reports + (IF fmt_writes_line(state') THEN 1 ELSE 0)
             ELSE /\ state' = IF perr' = "none"
                            THEN [state EXCEPT !.timestamp = raw'.timestamp]
                            ELSE state
                  /\ UNCHANGED reports
    /\ merged' = state'
    /\ UNCHANGED << reading_from_file, lock, wpc, headlines, entries, mpc >>

\* main, replay: the body of "for line in reader.lines()" for the line l
ReplayOne(l) ==
    /\ \E wrap \in Builds(messages) :
          /\ ParseLine(l, Raw_from(l), wrap)
          /\ IF message'.some
             THEN /\ state' = State_update(state, message'.msg)
                  /\ reports' = reports + (IF fmt_writes_line(state') THEN 1 ELSE 0)
             ELSE UNCHANGED << state, reports >>
    /\ merged' = state'
    /\ UNCHANGED << reading_from_file, lock, wpc, headlines, entries, mpc >>

\* main, replay: one turn of "for line in reader.lines()"
Replay(input, budget) ==
    /\ reading_from_file /\ rpc = "read" /\ nlines < budget
    /\ \E l \in input : ReplayOne(l)
    /\ UNCHANGED sent

\* main, replay of a capture of two sources: each source sends the frames
\* of its transmission in order and may begin again with its first frame
\* at any moment; the frames of the two sources come in any order
ReplayInterleaved ==
    /\ reading_from_file /\ rpc = "read" /\ nlines < MaxInterleavedLines
    /\ \E i \in 1..2 :
          \/ /\ sent[i].pos \in 1..6
             /\ ReplayOne(InterleavedLine(Sources[i], i - 1, sent[i].pos))
             /\ sent' = [sent EXCEPT ![i].pos = @ + 1]
          \/ /\ ReplayOne(InterleavedLine(Sources[i], i - 1, 0))
             /\ sent' = [sent EXCEPT ![i] = [pos |-> 1, fresh |-> sent[i].pos \in {0, 7}]]

ReplayLine == Replay(Lines, MaxLines)
ReplaySequence == Replay(SequenceLines, MaxSequenceLines)
ReplayBurst == Replay(BurstLines, MaxBurstLines)
ReplayIds == Replay(IdLines, MaxIdLines)
ReplayRudder == Replay(RudderLines, MaxRudderLines)
ReplayUpdate == Replay(UpdateLines, MaxUpdateLines)
ReplayParse == Replay(ParseLines, MaxParseLines)
ReplayTable == Replay(TableLines, MaxTableLines)
ReplayDate == Replay(DateLines, MaxDateLines)
ReplayFields == Replay(FieldLines, MaxFieldLines)
ReplayLength == Replay(LengthLines, MaxLengthLines)

\* read_thread: one line read and parsed
Read(input, budget) ==
    /\ ~reading_from_file /\ rpc = "read" /\ nlines < budget
    /\ \E l \in input, wrap \in Builds(messages) : ParseLine(l, Raw_from(l), wrap)
    /\ UNCHANGED << reading_from_file, state, lock, wpc, headlines, reports, entries, merged,
                    sent, mpc >>

ReadLine == Read(LiveLines, MaxLines)
ReadDate == Read(DateLines, MaxDateLines)

\* read_thread: state.lock() returns the guard; update(message) starts with
\* message.values()
MergeLock ==
    /\ ~reading_from_file /\ rpc = "merge" /\ lock = "free"
    /\ lock' = "reader"
    /\ entries' = values(message.msg)
    /\ rpc' = "update"
    /\ UNCHANGED << reading_from_file, messages, state, wpc, line, raw, found, message,
                    perr, werr, headlines, reports, nlines, seq, failed, merged, sent, mpc >>

\* State::update: one turn of "for value in message.values()"
MergeEntry ==
    /\ rpc = "update" /\ entries # << >>
    /\ state' = UpdateEntry(state, Head(entries))
    /\ entries' = Tail(entries)
    /\ UNCHANGED << reading_from_file, messages, lock, rpc, wpc, line, raw, found, message,
                    perr, werr, headlines, reports, nlines, seq, failed, merged, sent, mpc >>

\* read_thread: update returned, the guard is dropped at the end of the
\* statement
MergeUnlock ==
    /\ rpc = "update" /\ entries = << >>
    /\ lock' = "free"
    /\ rpc' = "read"
    /\ merged' = State_update(merged, message.msg)
    /\ UNCHANGED << reading_from_file, messages, state, wpc, entries, line, raw, found,
                    message, perr, werr, headlines, reports, nlines, seq, failed, sent, mpc >>

\* the input ends: the loop is left with Ok(())
EndOfInput ==
    /\ reading_from_file /\ rpc = "read"
    /\ rpc' = "eof"
    /\ UNCHANGED << reading_from_file, messages, state, lock, wpc, line, raw, found, message,
                    perr, werr, headlines, reports, nlines, seq, failed, entries, merged, sent, mpc >>

\* a writer that enters its loop without the headline
WriteHeadline_skip ==
    /\ wpc = "headline"
    /\ wpc' = "lock"
    /\ UNCHANGED << reading_from_file, messages, state, lock, rpc, line, raw, found, message,
                    perr, werr, headlines, reports, nlines, seq, failed, entries, merged,
                    sent, mpc >>

\* write_thread: the headline
WriteHeadline ==
    /\ wpc = "headline"
    /\ headlines' = headlines + 1
    /\ wpc' = "lock"
    /\ UNCHANGED << reading_from_file, messages, state, lock, rpc, line, raw, found, message,
                    perr, werr, reports, nlines, seq, failed, entries, merged, sent, mpc >>

\* a writer that reads the state without taking the lock
WriterLock_nolock ==
    /\ wpc = "lock" /\ reports < MaxReports
    /\ lock' = "writer"
    /\ wpc' = "write"
    /\ UNCHANGED << reading_from_file, messages, state, rpc, entries, line, raw, found,
                    message, perr, werr, headlines, reports, nlines, seq, failed, merged, sent, mpc >>

\* write_thread: let s = state.lock().unwrap()
WriterLock ==
    /\ wpc = "lock" /\ lock = "free" /\ reports < MaxReports
    /\ lock' = "writer"
    /\ wpc' = "write"
    /\ UNCHANGED << reading_from_file, messages, state, rpc, entries, line, raw, found,
                    message, perr, werr, headlines, reports, nlines, seq, failed, merged, sent, mpc >>

\* a writer that writes a line for the first report only
WriterWrite_first ==
    /\ wpc = "write"
    /\ reports' = reports + (IF fmt_writes_line(state) /\ reports = 0 THEN 1 ELSE 0)
    /\ wpc' = "drop"
    /\ UNCHANGED << reading_from_file, messages, state, lock, rpc, entries, line, raw, found,
                    message, perr, werr, headlines, nlines, seq, failed, merged, sent, mpc >>

\* write_thread: writer.write_all(format!("{}", s)), the guard s is alive
WriterWrite ==
    /\ wpc = "write"
    /\ reports' = reports + (IF fmt_writes_line(state) THEN 1 ELSE 0)
    /\ wpc' = "drop"
    /\ UNCHANGED << reading_from_file, messages, state, lock, rpc, entries, line, raw, found,
                    message, perr, werr, headlines, nlines, seq, failed, merged, sent, mpc >>

\* a writer that goes to sleep with the guard alive
WriterDrop_keep ==
    /\ wpc = "drop"
    /\ wpc' = "sleep"
    /\ UNCHANGED << reading_from_file, messages, state, lock, rpc, entries, line, raw, found,
                    message, perr, werr, headlines, reports, nlines, seq, failed, merged,
                    sent, mpc >>

\* write_thread: drop(s), then the flush when writing to stdout
WriterDrop ==
    /\ wpc = "drop"
    /\ lock' = "free"
    /\ wpc' = "sleep"
    /\ UNCHANGED << reading_from_file, messages, state, rpc, entries, line, raw, found,
                    message, perr, werr, headlines, reports, nlines, seq, failed, merged, sent, mpc >>

\* write_thread: thread::sleep(interval) is over
WriterWake ==
    /\ wpc = "sleep"
    /\ wpc' = "lock"
    /\ UNCHANGED << reading_from_file, messages, state, lock, rpc, line, raw, found, message,
                    perr, werr, headlines, reports, nlines, seq, failed, entries, merged, sent, mpc >>

Next ==
    \/ MainHeadline
    \/ ReplayLine
    \/ EndOfInput
    \/ ReadLine
    \/ MergeLock
    \/ MergeEntry
    \/ MergeUnlock
    \/ WriteHeadline
    \/ WriterLock
    \/ WriterWrite
    \/ WriterDrop
    \/ WriterWake

Spec == Init /\ [][Next]_vars

(***************************************************************************)
(* The replay of three narrower captures: Spec reads every kind of line    *)
(* but few of them; these read many lines of one kind.                     *)
(***************************************************************************)
InitReplay == Init /\ reading_from_file

NextSequence == MainHeadline \/ ReplaySequence \/ EndOfInput
SpecSequence == InitReplay /\ [][NextSequence]_vars

NextBurst == MainHeadline \/ ReplayBurst \/ EndOfInput
SpecBurst == InitReplay /\ [][NextBurst]_vars

NextIds == MainHeadline \/ ReplayIds \/ EndOfInput
SpecIds == InitReplay /\ [][NextIds]_vars

NextRudder == MainHeadline \/ ReplayRudder \/ EndOfInput
SpecRudder == InitReplay /\ [][NextRudder]_vars

NextUpdate == MainHeadline \/ ReplayUpdate \/ EndOfInput
SpecUpdate == InitReplay /\ [][NextUpdate]_vars

NextParse == MainHeadline \/ ReplayParse \/ EndOfInput
SpecParse == InitReplay /\ [][NextParse]_vars

NextTable == MainHeadline \/ ReplayTable \/ EndOfInput
SpecTable == InitReplay /\ [][NextTable]_vars

NextInterleaved == MainHeadline \/ ReplayInterleaved \/ EndOfInput
SpecInterleaved == InitReplay /\ [][NextInterleaved]_vars

NextLength == MainHeadline \/ ReplayLength \/ EndOfInput
SpecLength == InitReplay /\ [][NextLength]_vars

NextFields == MainHeadline \/ ReplayFields \/ EndOfInput
SpecFields == InitReplay /\ [][NextFields]_vars

\* both modes on a capture that carries the bus date
NextDate ==
    \/ MainHeadline
    \/ ReplayDate
    \/ EndOfInput
    \/ ReadDate
    \/ MergeLock
    \/ MergeEntry
    \/ MergeUnlock
    \/ WriteHeadline
    \/ WriterLock
    \/ WriterWrite
    \/ WriterDrop
    \/ WriterWake

SpecDate == Init /\ [][NextDate]_vars

(***************************************************************************)
(* Live mode with its ends: a datagram of no bytes ends the lines of the   *)
(* reader, a write or flush of the sink may fail, and main, waiting in     *)
(* writer_handle.join(), leaves with the writer's error.  The Mutex is     *)
(* taken under strong fairness: its holder lets go after a bounded number  *)
(* of steps and the writer sleeps an interval between two holds.  Reading  *)
(* a datagram and the failure of a write are up to the environment.        *)
(***************************************************************************)
\* read_thread: UdpStream::read returns 0 for a datagram of no bytes,
\* reader.lines() ends and read_thread returns Ok(())
EndOfStream ==
    /\ ~reading_from_file /\ rpc = "read"
    /\ rpc' = "eof"
    /\ UNCHANGED << reading_from_file, messages, state, lock, wpc, line, raw, found, message,
                    perr, werr, headlines, reports, nlines, seq, failed, entries, merged,
                    sent, mpc >>

\* write_thread: write_all or flush returns Err and "?" leaves the thread;
\* the guard, if alive, is dropped on the way out
WriterFail ==
    /\ wpc \in {"headline", "write", "drop"}
    /\ wpc' = "failed"
    /\ lock' = IF lock = "writer" THEN "free" ELSE lock
    /\ UNCHANGED << reading_from_file, messages, state, rpc, entries, line, raw, found,
                    message, perr, werr, headlines, reports, nlines, seq, failed, merged,
                    sent, mpc >>

\* a main that waits for the reader first and leaves with its error
MainExit_reader ==
    /\ mpc = "join" /\ rpc = "failed"
    /\ mpc' = "exited"
    /\ rpc' = "exited"
    /\ wpc' = "exited"
    /\ UNCHANGED << reading_from_file, messages, state, lock, line, raw, found, message,
                    perr, werr, headlines, reports, nlines, seq, failed, entries, merged,
                    sent >>

\* main: writer_handle.join().unwrap()? returns the writer's error and the
\* process ends, the reader with it
MainExit ==
    /\ mpc = "join" /\ wpc = "failed"
    /\ mpc' = "exited"
    /\ rpc' = "exited"
    /\ wpc' = "exited"
    /\ UNCHANGED << reading_from_file, messages, state, lock, line, raw, found, message,
                    perr, werr, headlines, reports, nlines, seq, failed, entries, merged,
                    sent >>

InitLive == Init /\ ~reading_from_file

NextLive ==
    \/ ReadLine
    \/ EndOfStream
    \/ MergeLock
    \/ MergeEntry
    \/ MergeUnlock
    \/ WriteHeadline
    \/ WriterLock
    \/ WriterWrite
    \/ WriterDrop
    \/ WriterWake
    \/ WriterFail
    \/ MainExit

SpecLive ==
    /\ InitLive /\ [][NextLive]_vars
    /\ SF_vars(MergeLock) /\ WF_vars(MergeEntry) /\ WF_vars(MergeUnlock)
    /\ WF_vars(WriteHeadline) /\ SF_vars(WriterLock) /\ WF_vars(WriterWrite)
    /\ WF_vars(WriterDrop) /\ WF_vars(WriterWake) /\ WF_vars(MainExit)

(***************************************************************************)
(* Properties.  A step that reads a line is a step with nlines' = nlines   *)
(* + 1; the frame it parsed is raw', the table it met is messages.         *)
(***************************************************************************)
ReadsFrame == nlines' = nlines + 1 /\ perr' = "none"

\* the entry parse_from_raw takes out of the table for a frame, or a new one
Entry(tbl, r) == IF KeyOf(r) \in DOMAIN tbl THEN tbl[KeyOf(r)] ELSE new(r.pgn)

\* C1: a transmission begun on an empty table, interrupted by a second valid
\* first frame of the same key: that frame and the continuations that follow
\* it in order raise no error, return no message before the seventh frame,
\* and the seventh returns a message holding exactly the second
\* transmission's bytes.
C1_Restart ==
    (nlines > 0 /\ perr = "none" /\ seq.hit /\ seq.pre = "restart") =>
        /\ werr = "none"
        /\ rpc \notin {"failed", "panicked"}
        /\ (seq.n < 7 => ~message.some)
        /\ (seq.n = 7 => message.some /\ message.msg.data = seq.bytes)

\* C2: every entry of the pending table of a fast PGN, and every fast
\* message returned, has data.len() + remaining_bytes = BYTES (43).
C2_LengthAccounting ==
    /\ \A k \in DOMAIN messages :
          FAST(k[2]) => Len(messages[k].data) + messages[k].remaining_bytes = BYTES(k[2])
    /\ (message.some /\ FAST(message.msg.pgn)) =>
          Len(message.msg.data) + message.msg.remaining_bytes = BYTES(message.msg.pgn)

\* C3: a frame of a non-fast catalogue PGN returns Some, leaves no entry for
\* its key, and the data of the message is as long as the catalogue's BYTES.
C3_SingleFrame ==
    (nlines > 0 /\ perr = "none" /\ raw.pgn \in CataloguePGNs /\ ~FAST(raw.pgn)) =>
        /\ message.some
        /\ KeyOf(raw) \notin DOMAIN messages
        /\ Len(message.msg.data) = BYTES(raw.pgn)

\* C4: a frame that meets a pending entry of its key, is not the frame the
\* entry expects (next_packet # counter_mask XOR data[0]) and is no restart
\* (data[0] & 0x1F # 0 or data[1] # BYTES) returns no message and leaves no
\* entry for the key.
C4_OutOfSequence ==
    [][ ( /\ ReadsFrame
          /\ KeyOf(raw') \in DOMAIN messages
          /\ LET e == messages[KeyOf(raw')]
                 d == raw'.data
             IN  /\ e.next_packet # BitXor(e.counter_mask, d[0])
                 /\ (BitAnd(d[0], 31) # 0 \/ d[1] # BYTES(e.pgn)) )
        => ( ~message'.some /\ KeyOf(raw') \notin DOMAIN messages' ) ]_vars

\* C4: a continuation frame that was not the expected one met a pending entry
C4_Witness ==
    /\ found /\ werr = "OutOfSequence"
    /\ BitAnd(raw.data[0], 31) # 0
    /\ ~message.some /\ KeyOf(raw) \notin DOMAIN messages

\* C5: a frame of a fast PGN with data[0] & 0x1F = 0 and data[1] # BYTES that
\* meets no transmission in progress (next_packet = 0) fails with
\* UnexpectedLength, returns no message and leaves no entry for the key.
C5_UnexpectedLength ==
    [][ ( /\ ReadsFrame
          /\ FAST(raw'.pgn)
          /\ Entry(messages, raw').next_packet = 0
          /\ BitAnd(raw'.data[0], 31) = 0
          /\ raw'.data[1] # BYTES(raw'.pgn) )
        => ( /\ werr' = "UnexpectedLength"
             /\ ~message'.some
             /\ KeyOf(raw') \notin DOMAIN messages' ) ]_vars

\* C5: a first frame announcing 42 bytes was rejected
C5_Witness ==
    /\ nlines > 0 /\ perr = "none" /\ ~found
    /\ FAST(raw.pgn) /\ BitAnd(raw.data[0], 31) = 0 /\ raw.data[1] = 42
    /\ werr = "UnexpectedLength" /\ ~message.some /\ KeyOf(raw) \notin DOMAIN messages

\* C6: a frame rejected by Raw::write returns None, does not end the loop and
\* leaves no entry for its key; and a transmission whose first frame follows
\* a rejected frame of its key, fed in order, returns no message and no error
\* for its first six frames and with its seventh frame the message holding
\* its bytes.
C6_Recovery ==
    /\ (werr # "none") =>
          /\ ~message.some
          /\ rpc \notin {"failed", "panicked"}
          /\ KeyOf(raw) \notin DOMAIN messages
    /\ (nlines > 0 /\ perr = "none" /\ seq.hit /\ seq.afterfail) =>
          /\ werr = "none"
          /\ rpc \notin {"failed", "panicked"}
          /\ (seq.n < 7 => ~message.some /\ KeyOf(raw) \in DOMAIN messages)
          /\ (seq.n = 7 => /\ message.some
                           /\ message.msg.data = seq.bytes
                           /\ KeyOf(raw) \notin DOMAIN messages)

\* C6: the seventh frame of a transmission begun after a rejected frame
C6_Witness ==
    /\ seq.hit /\ seq.afterfail /\ seq.n = 7
    /\ message.some /\ Len(message.msg.data) = 43

\* C7: a line Raw::from rejects is dropped and the loop goes on reading.
C7_Recoverable ==
    (nlines > 0 /\ perr # "none") => rpc \notin {"failed", "panicked"}

\* the PGNs of the catalogue table of the specification
CatalogueTable == {130306, 129025, 129029, 127250, 129026, 128259, 127251, 127257, 127245}

IdByte(msgid, i) ==
    CASE i = 0 -> BitAnd(msgid.lo, 255)
      [] i = 1 -> BitAnd(msgid.lo \div 256, 255)
      [] i = 2 -> BitAnd(msgid.hi, 255)
      [] i = 3 -> BitAnd(msgid.hi \div 256, 255)

\* C9: source = msgid & 0xFF, priority = (msgid >> 26) & 7, and with
\* pf = (msgid >> 16) & 0xFF, ps = (msgid >> 8) & 0xFF, rdp = (msgid >> 24) & 3:
\* pf < 240 gives destination = ps and pgn = (rdp << 16) | (pf << 8), otherwise
\* destination = 0xFF and pgn = (rdp << 16) | (pf << 8) | ps.
C9_Identifier ==
    (nlines > 0 /\ perr = "none") =>
        LET pf  == IdByte(raw.msgid, 2)
            ps  == IdByte(raw.msgid, 1)
            rdp == BitAnd(IdByte(raw.msgid, 3), 3)
        IN  /\ raw.src = IdByte(raw.msgid, 0)
            /\ raw.prio = BitAnd(IdByte(raw.msgid, 3) \div 4, 7)
            /\ (pf < 240 => /\ raw.dest = ps
                            /\ raw.pgn = BitOr(rdp * 65536, pf * 256))
            /\ (pf >= 240 => /\ raw.dest = 255
                             /\ raw.pgn = BitOr(BitOr(rdp * 65536, pf * 256), ps))

\* C9: the identifier FFF0FF15 was read: bits above the 29-bit identifier
\* set, pf = 240, ps = 255
C9_Witness ==
    /\ nlines > 0 /\ perr = "none"
    /\ raw.msgid = U32(65520, 65301)
    /\ raw.pgn = 258303 /\ raw.dest = 255 /\ raw.prio = 7 /\ raw.src = 21

\* C10 as stated: the example line parses to PGN 130306 (Wind), completes in
\* one step and its merge updates awa, aws and timestamp.
C10_ExampleWind ==
    (nlines > 0 /\ line = ExampleLine) =>
        /\ perr = "none"
        /\ raw.pgn = 130306
        /\ message.some
        /\ (rpc \notin {"merge", "update"} =>
              /\ state.timestamp = <<17, 33, 21141>>
              /\ state.aws = to_knots(u16_from_le_bytes(125, 230))
              /\ state.awa = to_degrees(u16_from_le_bytes(24, 192)))

\* C10: the example line parses to PGN 129025 (Position Rapid Update),
\* completes in one step, and its merge updates latitude (bytes A0 7D E6 18),
\* longitude (bytes C0 05 FB D5) and timestamp.
C10_ExamplePosition ==
    (nlines > 0 /\ line = ExampleLine) =>
        /\ perr = "none"
        /\ raw.pgn = 129025
        /\ message.some
        /\ KeyOf(raw) \notin DOMAIN messages
        /\ (rpc \notin {"merge", "update"} =>
              /\ state.timestamp = <<17, 33, 21141>>
              /\ state.latitude = Degrees(7, <<160, 125, 230, 24>>)
              /\ state.longitude = Degrees(7, <<192, 5, 251, 213>>))

\* C10: the example line was read and merged
C10_Witness ==
    /\ nlines > 0 /\ line = ExampleLine /\ rpc = "read"
    /\ message.some /\ message.msg.pgn = 129025
    /\ state.latitude = Degrees(7, <<160, 125, 230, 24>>)
    /\ state.timestamp = <<17, 33, 21141>>

\* a transmission fed in order from its first frame on, which met no entry
InOrder == nlines > 0 /\ perr = "none" /\ seq.hit /\ seq.pre \in {"empty", "absent"}

\* C11 as stated: the first frame and two continuation frames of a GNSS
\* Position Data transmission yield a decoded message whose latitude and
\* longitude are the encoded bytes [7..15) and [15..23).
C11_ThreeFrames ==
    (InOrder /\ seq.n = 3) =>
        /\ message.some
        /\ state.latitude = [scale |-> 16, le |-> SubSeq(GnssPayload(seq.ctr \div 32), 8, 15)]
        /\ state.longitude = [scale |-> 16, le |-> SubSeq(GnssPayload(seq.ctr \div 32), 16, 23)]

\* C11: the first frame and six continuation frames of a GNSS Position Data
\* transmission yield a message holding the 43 encoded bytes, whose merge
\* sets latitude to the encoded bytes [7..15) and longitude to [15..23), both
\* little-endian with scale 1e-16; the first three frames yield no message.
C11_RoundTrip ==
    /\ (InOrder /\ seq.n <= 3) => ~message.some
    /\ (InOrder /\ seq.n = 7) =>
          /\ message.some
          /\ message.msg.data = GnssPayload(seq.ctr \div 32)
          /\ state.latitude = [scale |-> 16, le |-> SubSeq(GnssPayload(seq.ctr \div 32), 8, 15)]
          /\ state.longitude = [scale |-> 16, le |-> SubSeq(GnssPayload(seq.ctr \div 32), 16, 23)]

\* C11: the seventh frame of the transmission with rolling counter 1 was
\* read and the position merged
C11_Witness ==
    /\ InOrder /\ seq.n = 7 /\ seq.ctr = 32
    /\ message.some
    /\ state.latitude = [scale |-> 16, le |-> <<138, 139, 140, 141, 142, 143, 145, 146>>]

\* a turn of the replay loop
ReplayTurn == reading_from_file /\ nlines' = nlines + 1

\* C12 as stated: in replay every completed message produces one report
\* line, so once the parser returned a message a report line was written.
C12_EveryMessageReported ==
    (reading_from_file /\ message.some) => reports >= 1

\* C12: in replay a completed message is merged in the turn of the loop that
\* completed it, before the next line is read, and that turn writes one
\* report line formatted from the merged state if a bus date was merged
\* before and no line otherwise; a turn that completes no message leaves the
\* state and the output alone.
C12_ReplayReport ==
    [][ReplayTurn =>
          /\ state'.nmea_date
          /\ message'.some =>
                /\ state'.timestamp = message'.msg.timestamp
                /\ reports' = reports + (IF state'.got_nmea_date THEN 1 ELSE 0)
          /\ ~message'.some => (state' = state /\ reports' = reports)]_vars

\* C12: the second line of a replay completed a message that was merged, and
\* no report line was written for want of a bus date
C12_Witness ==
    /\ reading_from_file /\ nlines = 2 /\ perr = "none"
    /\ message.some /\ state.timestamp = message.msg.timestamp
    /\ state.aws # 0
    /\ ~state.got_nmea_date /\ reports = 0

\* C13 as stated: in live mode no further line is written for a state that
\* did not change since the previous report; before the first line is read
\* the state cannot have changed, so at most one line was written.
C13_NoDuplicate ==
    (~reading_from_file /\ nlines = 0) => reports <= 1

\* C13: in live mode every turn of the writer's loop writes one line for the
\* state it finds, changed or not, unless bus dates are asked for and none
\* was merged yet, and leaves the state alone.
C13_ReportEveryInterval ==
    [][(~reading_from_file /\ wpc = "write" /\ wpc' # "write") =>
          /\ reports' = reports + (IF state.nmea_date /\ ~state.got_nmea_date THEN 0 ELSE 1)
          /\ state' = state]_vars

\* C13: two lines were written for the initial state before any line was read
C13_Witness ==
    /\ ~reading_from_file /\ nlines = 0 /\ reports = 2
    /\ state = State_new(FALSE)

\* C14: in live mode, whenever the writer holds the lock the state is the
\* result of merging, in order, the messages whose merge finished, and no
\* merge is under way.
C14_WholeMerges ==
    lock = "writer" =>
        /\ wpc \in {"write", "drop"}
        /\ rpc # "update" /\ entries = << >>
        /\ state = merged

\* C14: the writer holds the lock after the merge of a first message, while
\* the reader waits for the lock with a second message
C14_Witness ==
    /\ lock = "writer" /\ wpc = "write"
    /\ nlines = 2 /\ rpc = "merge" /\ message.some
    /\ state = merged /\ state.timestamp # <<0, 0, 0>>
    /\ state.timestamp # message.msg.timestamp

\* C15 as stated: the reader does not hold the lock while it reads a line,
\* the writer does not hold it while it writes to the sink or sleeps.
C15_LockScope ==
    [][/\ nlines' # nlines => lock # "reader"
       /\ (~reading_from_file /\ headlines' # headlines) => lock # "writer"
       /\ (~reading_from_file /\ reports' # reports) => lock # "writer"
       /\ (wpc = "sleep" /\ wpc' # "sleep") => lock # "writer"]_vars

\* the i16 at bytes [4..6) of a frame, little-endian
RudderRaw(r) ==
    LET u == r.data[4] + 256 * r.data[5] IN IF u >= 32768 THEN u - 65536 ELSE u

\* C16: merging a Rudder message whose raw angle lies outside [-pi, pi]
\* (beyond 31415 in 1e-4 rad) leaves rudder_angle at its prior value, one
\* inside the range overwrites it with the angle in degrees, raw 0 giving
\* 0 degrees; either way the state's timestamp becomes the message's.
C16_RudderFilter ==
    [][(ReplayTurn /\ perr' = "none" /\ raw'.pgn = RudderMessage_PGN) =>
          /\ message'.some
          /\ state'.timestamp = raw'.timestamp
          /\ (RudderRaw(raw') > 31415 \/ RudderRaw(raw') < -31415) =>
                state'.rudder_angle = state.rudder_angle
          /\ (RudderRaw(raw') <= 31415 /\ RudderRaw(raw') >= -31415) =>
                state'.rudder_angle = (RudderRaw(raw') * 5730) \div 10000
          /\ RudderRaw(raw') = 0 => state'.rudder_angle = 0]_vars

\* C16: a Rudder message just below -pi (raw -31416, bytes 48 85) was merged
\* after one of 0.1319 rad: the angle is still 7.55 degrees, the timestamp
\* is the second message's
C16_Witness ==
    /\ reading_from_file /\ nlines = 2 /\ message.some
    /\ raw.pgn = RudderMessage_PGN /\ raw.data[4] = 72 /\ raw.data[5] = 133
    /\ state.rudder_angle = 755
    /\ state.timestamp = <<17, 33, 22500>>

\* the fields of the State other than the timestamp
StateFields ==
    {"awa", "aws", "latitude", "longitude", "hdg", "cog", "sog", "stw", "rot",
     "pitch", "yaw", "roll", "rudder_angle", "nmea_date", "got_nmea_date",
     "date_time", "days", "seconds", "localoffset"}

\* the fields for which a message of a PGN carries a tagged value
Tagged(pgn) ==
    CASE pgn = WindMessage_PGN -> {"awa", "aws"}
      [] pgn = PositionRapidUpdateMessage_PGN -> {"latitude", "longitude"}
      [] pgn = GNSSPositionData_PGN -> {"latitude", "longitude"}
      [] pgn = VesselHeadingMessage_PGN -> {"hdg"}
      [] pgn = CogSogRapidUpdateMessage_PGN -> {"cog", "sog"}
      [] pgn = SpeedMessage_PGN -> {"stw"}
      [] pgn = RateOfTurnMessage_PGN -> {"rot"}
      [] pgn = AttitudeMessage_PGN -> {"yaw", "pitch", "roll"}
      [] pgn = RudderMessage_PGN -> {"rudder_angle"}
      [] OTHER -> {}

\* the value a message carries for a field it tags: what its merge into a
\* new state stores, and for the rudder the decoded angle in degrees
Carried(m, f) ==
    IF f = "rudder_angle" THEN (i16_from_le_bytes(At(m, 4), At(m, 5)) * 5730) \div 10000
    ELSE UpdateAll(State_new(TRUE), values(m))[f]

C18_TooFewFields ==
    (nlines > 0 /\ Len(line) < 3) =>
        /\ perr \notin {"none", "panic"}
        /\ rpc # "panicked"
        /\ ~message.some

\* C19: a line is accepted only if its second field is exactly "R" or "T",
\* and the frame's direction is Received for "R" and Transmitted for "T"; a
\* line with a well-formed time field and any other direction token fails
\* with InvalidField, produces no frame and returns no message.
C19_Direction ==
    [][ReplayTurn =>
          /\ perr' = "none" =>
                /\ Len(line') >= 2
                /\ line'[2] \in {<<"R">>, <<"T">>}
                /\ line'[2] = <<"R">> => raw'.direction = "Received"
                /\ line'[2] = <<"T">> => raw'.direction = "Transmitted"
          /\ (Len(line') >= 2 /\ line'[1] \in {T1, T2} /\ line'[2] \notin {<<"R">>, <<"T">>}) =>
                /\ perr' = "InvalidField"
                /\ rpc' = "failed"
                /\ raw' = raw /\ messages' = messages /\ state' = state
                /\ ~message'.some]_vars

\* C19: a line with direction "T" was accepted as Transmitted, and the line
\* after it, with direction "r", failed with InvalidField
C19_Witness ==
    /\ nlines = 2 /\ perr = "InvalidField" /\ rpc = "failed"
    /\ Len(line) = 11 /\ line[2] = <<"r">>
    /\ raw.direction = "Transmitted" /\ raw.pgn = WindMessage_PGN

\* C20: when Raw::write accepts a frame and leaves remaining_bytes at 0, the
\* message is returned and the table has no entry under the frame's
\* (src, pgn) afterwards; when it accepts a frame and remaining_bytes is
\* above 0, None is returned and the table holds the written message under
\* (src, pgn); the entries of other keys are as before.
C20_ReturnedOrPending ==
    [][(ReadsFrame /\ raw'.pgn \in CataloguePGNs) =>
          LET key == KeyOf(raw')
              w   == write(raw', Entry(messages, raw'), TRUE)
          IN  w.status = "Ok" =>
                /\ w.m.remaining_bytes = 0 =>
                      /\ message' = Some(w.m)
                      /\ key \notin DOMAIN messages'
                /\ w.m.remaining_bytes > 0 =>
                      /\ message' = None
                      /\ key \in DOMAIN messages' /\ messages'[key] = w.m
                /\ \A k \in (DOMAIN messages \cup DOMAIN messages') \ {key} :
                      k \in DOMAIN messages /\ k \in DOMAIN messages' /\ messages'[k] = messages[k]]_vars

\* C20: the seventh frame of a transmission brought remaining_bytes to 0: the
\* message of 43 bytes was returned and its key left the table, which still
\* holds the transmission the other source began
C20_Witness ==
    /\ nlines = 8 /\ perr = "none" /\ werr = "none"
    /\ message.some /\ message.msg.remaining_bytes = 0 /\ Len(message.msg.data) = 43
    /\ KeyOf(raw) = <<SrcA, GNSSPositionData_PGN>>
    /\ DOMAIN messages = {<<SrcB, GNSSPositionData_PGN>>}
    /\ messages[<<SrcB, GNSSPositionData_PGN>>].remaining_bytes = 37

\* C21 as stated: in every pending entry next_packet is the number of frames
\* of the current transmission consumed so far: the data holds 6 bytes of
\* the first frame and 7 of each further one, and right after a first frame,
\* restart included, next_packet is 1.
C21_FramesConsumed ==
    /\ \A k \in DOMAIN messages :
          Len(messages[k].data) = 6 + 7 * (messages[k].next_packet - 1)
    /\ (nlines > 0 /\ perr = "none" /\ werr = "none" /\ ValidStart(raw)
            /\ KeyOf(raw) \in DOMAIN messages) =>
          messages[KeyOf(raw)].next_packet = 1

\* the data of the message a frame was written to, after the call
WrittenData ==
    IF message'.some THEN message'.msg.data
    ELSE IF KeyOf(raw') \in DOMAIN messages' THEN messages'[KeyOf(raw')].data
    ELSE << >>

\* a frame met a pending entry and its bytes were appended to the entry's
HitsPending ==
    /\ ReadsFrame /\ KeyOf(raw') \in DOMAIN messages
    /\ werr' = "none" /\ rpc' # "panicked"
    /\ Len(WrittenData) > Len(messages[KeyOf(raw')].data)

\* C22 as stated: a frame is appended to a pending entry only if its high
\* 3 bits are those of the entry's first frame and its low 5 bits are the
\* number of frames the entry has consumed (6 bytes of the first frame, 7 of
\* each further one).
C22_Continuation ==
    [][HitsPending =>
          /\ raw'.data[0] \div 32 = messages[KeyOf(raw')].counter_mask \div 32
          /\ raw'.data[0] % 32 = 1 + (Len(messages[KeyOf(raw')].data) - 6) \div 7]_vars

\* the four header fields of a message or of a frame
Header(m) == <<m.timestamp, m.prio, m.src, m.dest>>

\* the message a frame was written to, after the call
Written == IF message'.some THEN message'.msg ELSE messages'[KeyOf(raw')]

\* C23: a continuation frame appended to a pending entry leaves its
\* timestamp, priority, source and destination as they were; an accepted
\* first frame, restart included, stores its own; so a completed message of
\* either source carries the timestamp and priority of its first frame, not
\* those of the frame that completed it.
C23_HeaderOfStart ==
    [][ReadsFrame =>
          /\ HitsPending => Header(Written) = Header(messages[KeyOf(raw')])
          /\ (ValidStart(raw') /\ werr' = "none") =>
                /\ KeyOf(raw') \in DOMAIN messages'
                /\ Header(messages'[KeyOf(raw')]) = Header(raw')
          /\ message'.some =>
                /\ message'.msg.timestamp =
                      (IF raw'.src = SrcA THEN <<17, 33, 21141>> ELSE <<17, 33, 22500>>)
                /\ message'.msg.prio = (IF raw'.src = SrcA THEN 2 ELSE 3)
                /\ message'.msg.src = raw'.src /\ message'.msg.dest = 255]_vars

\* C23: the seventh frame of the second source, read at 17:33:23.000 with
\* priority 6, completed a message that carries the first frame's timestamp
\* 17:33:22.500 and priority 3
C23_Witness ==
    /\ message.some /\ raw.src = SrcB /\ sent[2].pos = 7
    /\ raw.timestamp = <<17, 33, 23000>> /\ raw.prio = 6
    /\ message.msg.timestamp = <<17, 33, 22500>> /\ message.msg.prio = 3

\* the index in sent of the source of a frame
SourceOf(r) == IF r.src = SrcA THEN 1 ELSE 2

\* the 8 bytes of frame idx of the transmission of source i, byte k of the
\* frame at index k + 1
FrameOf(i, idx) == FastBytes(i - 1, idx, 43)

\* the bytes of the first n frames of the transmission of source i: bytes
\* 2..7 of the first frame, bytes 1..7 of the next five, bytes 1..2 of the
\* seventh
RECURSIVE FramesData(_, _)
FramesData(i, n) ==
    IF n = 0 THEN << >>
    ELSE IF n = 1 THEN SubSeq(FrameOf(i, 0), 3, 8)
    ELSE IF n = 7 THEN FramesData(i, 6) \o SubSeq(FrameOf(i, 6), 2, 3)
    ELSE FramesData(i, n - 1) \o SubSeq(FrameOf(i, n - 1), 2, 8)

\* C24: a source begins a transmission of PGN 129029 while none of its own
\* is under way, so that its key has no pending entry, and sends the frames
\* 1..6 in order: each of the first six frames returns None and leaves a
\* pending entry with the bytes read so far, the seventh returns the message
\* with the 43 bytes of the seven frames in order, whatever the other source
\* sends in between.
C24_SevenFrames ==
    [][ReadsFrame =>
          LET i   == SourceOf(raw')
              key == KeyOf(raw')
          IN  /\ sent[i].pos \in {0, 7} => key \notin DOMAIN messages
              /\ (sent'[i].fresh /\ sent'[i].pos <= 6) =>
                    /\ message' = None
                    /\ key \in DOMAIN messages'
                    /\ messages'[key].data = FramesData(i, sent'[i].pos)
              /\ (sent'[i].fresh /\ sent'[i].pos = 7) =>
                    /\ message'.some
                    /\ Len(message'.msg.data) = 43
                    /\ message'.msg.data = FramesData(i, 7)
                    /\ key \notin DOMAIN messages']_vars

\* C24: the first source sent its seven frames in order and the seventh
\* returned the 43 bytes, ending with bytes 1..2 of the seventh frame
C24_Witness ==
    /\ sent[1] = [pos |-> 7, fresh |-> TRUE] /\ raw.src = SrcA /\ raw.data[0] = 6
    /\ message.some /\ Len(message.msg.data) = 43
    /\ message.msg.data[1] = 66 /\ message.msg.data[42] = raw.data[1]
    /\ message.msg.data[43] = raw.data[2]

\* the table with the entries of all keys but k taken out
Only(tbl, k) == [x \in (DOMAIN tbl) \cap {k} |-> tbl[x]]

\* C25: a frame leaves the entries of all keys but its own as they are, and
\* what it returns and leaves under its own key is what it would return and
\* leave had the table held its own entry alone; so with the frames of two
\* sources in any order, every message returned holds the bytes of its own
\* source's frames, and each source that sends its seven frames in order,
\* with none of its own under way before, gets its message on the seventh.
C25_KeyIsolation ==
    [][ReadsFrame =>
          LET key == KeyOf(raw')
              r   == parse_from_raw(Only(messages, key), raw', TRUE)
          IN  /\ \A k \in (DOMAIN messages \cup DOMAIN messages') \ {key} :
                    k \in DOMAIN messages /\ k \in DOMAIN messages' /\ messages'[k] = messages[k]
              /\ message' = r.ret
              /\ Only(messages', key) = r.messages
              /\ message'.some =>
                    /\ message'.msg.src = raw'.src
                    /\ message'.msg.data = FramesData(SourceOf(raw'), 7)
              /\ (sent'[SourceOf(raw')].fresh /\ sent'[SourceOf(raw')].pos = 7) => message'.some]_vars

\* C25: the first source's transmission completed with its own bytes while
\* the second source's, begun in between, is pending with its four frames
C25_Witness ==
    /\ sent[1] = [pos |-> 7, fresh |-> TRUE] /\ sent[2] = [pos |-> 4, fresh |-> TRUE]
    /\ raw.src = SrcA /\ message.some /\ message.msg.data = FramesData(1, 7)
    /\ DOMAIN messages = {<<SrcB, GNSSPositionData_PGN>>}
    /\ messages[<<SrcB, GNSSPositionData_PGN>>].data = FramesData(2, 4)
    /\ FramesData(1, 7) # FramesData(2, 7)

\* C26 as stated: every entry of the pending table belongs to a fast PGN,
\* has remaining_bytes > 0 and next_packet >= 1, and is stored under its own
\* source and PGN; a non-fast PGN leaves no entry.
C26_StoredEntries ==
    \A k \in DOMAIN messages :
        /\ FAST(messages[k].pgn)
        /\ messages[k].remaining_bytes > 0
        /\ messages[k].next_packet >= 1
        /\ k = <<messages[k].src, messages[k].pgn>>

\* C27 as stated: next_packet of a pending entry of PGN 129029 never
\* exceeds 7, and its 8-bit increment neither overflows nor wraps.
C27_AtMostSeven ==
    /\ \A k \in DOMAIN messages :
          k[2] = GNSSPositionData_PGN => messages[k].next_packet <= 7
    /\ rpc # "panicked"

\* next_packet and remaining_bytes of the entries of a pending table
Progress(tbl) ==
    [k \in DOMAIN tbl |-> <<tbl[k].next_packet, tbl[k].remaining_bytes>>]

\* C28 as stated: a frame applied by the earlier parser (parser.rs) to the
\* pending table returns a completed message exactly when the running
\* parser does, with the same data bytes, and leaves pending entries with
\* the same next_packet and remaining_bytes.
C28_LegacyEquivalent ==
    [][(ReadsFrame /\ rpc' # "panicked") =>
          LET l == Parser_parse(messages, raw', TRUE) IN
              /\ l.ret.some = message'.some
              /\ message'.some => l.ret.msg.data = message'.msg.data
              /\ Progress(l.messages) = Progress(messages')]_vars

\* C29: in live mode, while the process runs, a completed message waiting
\* for the lock is eventually merged whole into the state, the writer that
\* went to sleep eventually holds the lock again and has written its
\* report, and a lock that is held is eventually released.
C29_NoStarvation ==
    /\ (rpc = "merge") ~> ((rpc = "read" /\ state = merged) \/ mpc = "exited")
    /\ (wpc = "sleep" /\ reports < MaxReports) ~> (wpc = "drop" \/ wpc = "failed")
    /\ (lock # "free") ~> (lock = "free" \/ mpc = "exited")

\* C29: a completed message waits for the lock while the writer, holding
\* it, is about to write a report
C29_Witness ==
    /\ ~reading_from_file /\ mpc = "join"
    /\ rpc = "merge" /\ message.some
    /\ lock = "writer" /\ wpc = "write" /\ reports = 1

\* read_thread has returned or unwound
Returned == {"failed", "panicked", "eof"}

Reports ==
    \/ reading_from_file /\ nlines' = nlines + 1 /\ message'.some
    \/ wpc = "write" /\ wpc' = "drop"

\* C31: replay uses the bus date; got_nmea_date is false before the first
\* line, is set only by the merge of a local offset and is never reset;
\* with the bus date in use a data line is written only when it is set,
\* and once it is set every report writes a line.
C31_DateGate ==
    [][/\ reading_from_file => state.nmea_date
       /\ nlines = 0 => ~state.got_nmea_date
       /\ state.got_nmea_date => state'.got_nmea_date
       /\ (~state.got_nmea_date /\ state'.got_nmea_date) =>
             IF reading_from_file
             THEN message'.some /\ message'.msg.pgn = TimeDateMessage_PGN
             ELSE entries # << >> /\ Head(entries).tag = "LocalOffset"
       /\ (reports' # reports /\ state'.nmea_date) => state'.got_nmea_date
       /\ (Reports /\ state'.got_nmea_date) => reports' = reports + 1]_vars

\* C31: a replay of a Position message, the bus date and a Heading message:
\* no line for the first, one for each of the other two
C31_Witness ==
    /\ reading_from_file /\ nlines = 3 /\ reports = 2
    /\ state.got_nmea_date /\ state.localoffset = 60 /\ state.days = 20000
    /\ state.latitude # ZeroDegrees /\ state.hdg # 0
    /\ raw.pgn = VesselHeadingMessage_PGN

\* C32: in both modes the headline is written once, by a step that finds
\* no headline and no data line in the sink, and every data line is written
\* after it.
C32_HeaderFirst ==
    [][/\ headlines' # headlines =>
             (headlines = 0 /\ headlines' = 1 /\ reports = 0 /\ reports' = 0)
       /\ reports' # reports => (headlines = 1 /\ headlines' = 1)]_vars

\* C32: live mode, the writer has written the headline and two data lines
\* of a state with a message merged
C32_Witness ==
    /\ ~reading_from_file /\ headlines = 1 /\ reports = 2 /\ wpc = "drop"
    /\ ~state.nmea_date /\ state.timestamp # <<0, 0, 0>>

\* the first eight data fields of the line are hex numbers
GoodFields == \A i \in 1..Min(Len(line) - 3, 8) : line[3 + i] # NoHex

\* C33: a line of any number of data fields parses exactly when its first
\* eight are hex numbers, and never panics; the frame's data has the eight
\* bytes 0..7, byte i is the i-th field where the line has one and 0 where
\* it has none, and fields after the eighth are not looked at.
C33_EightBytes ==
    nlines > 0 =>
        /\ rpc # "panicked"
        /\ (perr = "none") <=> GoodFields
        /\ perr = "none" =>
              /\ DOMAIN raw.data = 0..7
              /\ \A i \in 0..7 :
                    raw.data[i] = IF i < Len(line) - 3 THEN FieldByte(i + 1) ELSE 0

\* C33: a line of eight data fields and a ninth that is no hex number
\* parsed, after a line of three fields
C33_Witness ==
    /\ nlines = 2 /\ perr = "none" /\ Len(line) = 12 /\ line[12] = NoHex
    /\ raw.data[7] = 136 /\ raw.data[0] = 17
    /\ state.aws # 0

\* a step that reads a line, whatever becomes of it
ReadsLine == nlines' = nlines + 1

\* C34: the state changes only in the merge of a completed message: in
\* replay in the turn whose parse returned it, in live mode in State::update
\* under the reader's lock; a line that fails to parse, is ignored, is
\* stored as part of a transmission or is rejected by Raw::write leaves
\* every field as it was, and in live mode no merge follows it.
C34_OnlyCompleted ==
    [][/\ state' # state =>
             IF reading_from_file THEN ReadsLine /\ message'.some
             ELSE rpc = "update" /\ lock = "reader" /\ message.some /\ entries # << >>
       /\ (ReadsLine /\ ~message'.some) =>
             (state' = state /\ rpc' \notin {"merge", "update"})]_vars

\* C34: after a message was merged, a frame out of sequence was rejected:
\* the state, timestamp included, is still that of the merged message
C34_Witness ==
    /\ nlines = 2 /\ perr = "none" /\ werr = "OutOfSequence" /\ ~message.some
    /\ state = merged /\ state.timestamp # <<0, 0, 0>>
    /\ state.timestamp # raw.timestamp

\* C35 as stated: Raw::write returns UnexpectedLength only for a frame that
\* met no pending entry of its key; a frame with data[0] & 0x1F = 0 and
\* data[1] # BYTES that meets a pending entry is rejected with OutOfSequence.
C35_LengthOnlyFresh ==
    (nlines > 0 /\ perr = "none") =>
        /\ werr = "UnexpectedLength" => ~found
        /\ (found /\ FAST(raw.pgn) /\ BitAnd(raw.data[0], 31) = 0
                  /\ raw.data[1] # BYTES(raw.pgn)) => werr = "OutOfSequence"

====
